---- MODULE Spec2Model ----
(***************************************************************************)
(* Model of TransformToTCP.py: the script run() that locates the "TCP"     *)
(* occurrence of a Fusion design and reports its pose, and the two pure    *)
(* conversions _axes_to_quaternion and _axes_to_euler_zyx.                 *)
(*                                                                         *)
(* Numbers.  A float of the program is modelled by the real number it      *)
(* stands for, kept exactly.  An input coordinate is a rational x/d; the   *)
(* three axes of one basis share the denominator d, which is stored in     *)
(* each vector.  A computed value is a surd n*sqrt(k)/d in canonical form  *)
(* (k square-free, n/d in lowest terms, zero written 0*sqrt(1)/1), so two  *)
(* values are equal exactly when their records are equal.  Rounding of     *)
(* floating point is not modelled.                                         *)
(*                                                                         *)
(* Angles.  An angle returned by math.asin / math.atan2 is modelled by the *)
(* point (cos, sin) it marks on the unit circle, which determines it in    *)
(* (-pi, pi].                                                              *)
(*                                                                         *)
(* run().  A message box is recorded by its first line and the occurrences *)
(* it names, a log line by its label and the quaternion in the order it is *)
(* written; the translation, the conversion to degrees and millimetres and *)
(* the number formatting are left out.  ui.messageBox returns normally;    *)
(* the other host calls inside the try block may raise, which run()        *)
(* answers with a message box holding the traceback.                       *)
(***************************************************************************)
EXTENDS Integers, Sequences, FiniteSets, TLC

VARIABLES
    pc,        \* position of the running call
    design,    \* app.activeProduct: [active, names] (component name per occurrence, in allOccurrences order)
    basis,     \* the axes handed to the conversions: [xa, ya, za], or NoValue
    quat,      \* result of _axes_to_quaternion, <<qx, qy, qz, qw>>, or NoValue
    euler,     \* result of _axes_to_euler_zyx, <<rx, ry, rz>>, or NoValue
    tcp_occs,  \* the occurrences run() chooses from (indices into design.names)
    tcp_occ,   \* index of the occurrence run() uses, 0 while none
    boxes,     \* message boxes shown so far, in order
    log        \* lines written with app.log, in order

vars == <<pc, design, basis, quat, euler, tcp_occs, tcp_occ, boxes, log>>

\* ---------------------------------------------------------------- bounds

\* Largest common denominator of the coordinates of a right-handed orthonormal basis.
MaxDen == 5

\* ------------------------------------------------------- exact arithmetic

Abs(i) == IF i < 0 THEN -i ELSE i

RECURSIVE GCD(_, _)
GCD(a, b) == IF b = 0 THEN Abs(a) ELSE GCD(b, a % b)

\* The largest s with s*s dividing k (k >= 1).
SquarePart(k) ==
    LET C == {s \in 1..k : s * s <= k /\ k % (s * s) = 0}
    IN  CHOOSE s \in C : \A t \in C : t <= s

\* The surd n*sqrt(k)/d (k >= 1, d # 0) in canonical form.
Surd(n, k, d) ==
    IF n = 0 THEN [n |-> 0, k |-> 1, d |-> 1]
    ELSE LET s  == SquarePart(k)
             nn == (IF d < 0 THEN -n ELSE n) * s
             dd == Abs(d)
             g  == GCD(nn, dd)
         IN  [n |-> nn \div g, k |-> k \div (s * s), d |-> dd \div g]

\* The rational p/q.
Rat(p, q) == Surd(p, 1, q)

Zero == Rat(0, 1)
One  == Rat(1, 1)

\* What a computation yields instead of a real number: the result of
\* (negative) ** 0.5, which Python makes a complex number, and the
\* ZeroDivisionError that x / 0.0 raises.
ComplexValue      == [n |-> 1, k |-> -1, d |-> 1]
ZeroDivisionError == [n |-> 1, k |-> 1, d |-> 0]
\* A sum of two surds with different radicands: a real number, never a
\* rational one, that has no single-surd form.
MixedSurd         == [n |-> 1, k |-> 0, d |-> 1]

IsSingle(v) == v.d > 0 /\ v.k >= 1

\* The first operand that is not a single surd, passed on unchanged.
Bad(a, b) == IF ~IsSingle(a) THEN a ELSE b

Neg(a) == IF IsSingle(a) THEN [a EXCEPT !.n = -a.n] ELSE a

Mul(a, b) ==
    IF ~(IsSingle(a) /\ IsSingle(b)) THEN Bad(a, b)
    ELSE LET g == GCD(a.k, b.k)
         IN  Surd(a.n * b.n * g, (a.k \div g) * (b.k \div g), a.d * b.d)

\* a / b; raises ZeroDivisionError when b = 0.
Div(a, b) ==
    IF ~(IsSingle(a) /\ IsSingle(b)) THEN Bad(a, b)
    ELSE IF b.n = 0 THEN ZeroDivisionError
    ELSE Mul(a, Surd(b.d, b.k, b.n * b.k))

Add(a, b) ==
    IF ~(IsSingle(a) /\ IsSingle(b)) THEN Bad(a, b)
    ELSE IF a.n = 0 THEN b
    ELSE IF b.n = 0 THEN a
    ELSE IF a.k # b.k THEN MixedSurd
    ELSE Surd(a.n * b.d + b.n * a.d, a.k, a.d * b.d)

Sub(a, b) == Add(a, Neg(b))

\* a ** 0.5 of a rational a.
Sqrt(a) ==
    IF ~IsSingle(a) THEN a
    ELSE IF a.n < 0 THEN ComplexValue
    ELSE IF a.n = 0 THEN Zero
    ELSE Surd(1, a.n * a.d, a.d)

\* ------------------------------------------------------------- the inputs

\* The coordinate c of a vector, as a number.
Coord(v, c) == Rat(c, v.d)

Vec(x, y, z, d) == [x |-> x, y |-> y, z |-> z, d |-> d]

Dot(u, v) == u.x * v.x + u.y * v.y + u.z * v.z

\* d times the cross product of u and v, both of denominator d.
Cross(u, v) == Vec(u.y * v.z - u.z * v.y,
                   u.z * v.x - u.x * v.z,
                   u.x * v.y - u.y * v.x, u.d)

UnitVectors(d) == {v \in {Vec(x, y, z, d) : x \in -d..d, y \in -d..d, z \in -d..d} :
                      Dot(v, v) = d * d}

\* The right-handed orthonormal bases with coordinates in (1/d)Z:
\* zAxis = xAxis x yAxis.
BasesOver(d) ==
    {[xa |-> p[1], ya |-> p[2],
      za |-> LET c == Cross(p[1], p[2]) IN Vec(c.x \div d, c.y \div d, c.z \div d, d)] :
        p \in {pp \in UnitVectors(d) \X UnitVectors(d) :
                  /\ Dot(pp[1], pp[2]) = 0
                  /\ LET c == Cross(pp[1], pp[2])
                     IN  c.x % d = 0 /\ c.y % d = 0 /\ c.z % d = 0}}

Bases == UNION {BasesOver(d) : d \in 1..MaxDen}

\* Triples of vectors that need not be orthonormal nor right-handed.  The
\* entries the code branches on (the diagonal M00, M11, M22 and M20) range
\* over -MaxAny..MaxAny, each of the other five is -1 or 1, and the common
\* denominator is 1 or 2.
MaxAny == 2

AnyTriples ==
    {[xa |-> Vec(t[1][1], t[2][1], t[1][4], t[3]),
      ya |-> Vec(t[2][2], t[1][2], t[2][3], t[3]),
      za |-> Vec(t[2][4], t[2][5], t[1][3], t[3])] :
        t \in [1..4 -> -MaxAny..MaxAny] \X [1..5 -> {-1, 1}] \X {1, 2}}

\* ------------------------------------------------------ _axes_to_quaternion

\* QuatBranch with "or" for "and" in the first elif.
QuatBranchOr(xa, ya, za) ==
    LET m00 == xa.x
        m11 == ya.y
        m22 == za.z
        tr  == m00 + m11 + m22
    IN  IF tr > 0 THEN "tr"
        ELSE IF (m00 > m11) \/ (m00 > m22) THEN "m00"
        ELSE IF m11 > m22 THEN "m11"
        ELSE "m22"

\* QuatBranch with ">=" for ">" in the second elif.
QuatBranchGeq(xa, ya, za) ==
    LET m00 == xa.x
        m11 == ya.y
        m22 == za.z
        tr  == m00 + m11 + m22
    IN  IF tr > 0 THEN "tr"
        ELSE IF (m00 > m11) /\ (m00 > m22) THEN "m00"
        ELSE IF m11 >= m22 THEN "m11"
        ELSE "m22"

\* The branch the if / elif chain takes, by the diagonal entry it is for:
\* "tr", "m00", "m11" or "m22".  The entries of one basis share their
\* denominator, so they compare as their numerators do.
QuatBranch(xa, ya, za) ==
    LET m00 == xa.x
        m11 == ya.y
        m22 == za.z
        tr  == m00 + m11 + m22
    IN  IF tr > 0 THEN "tr"
        ELSE IF (m00 > m11) /\ (m00 > m22) THEN "m00"
        ELSE IF m11 > m22 THEN "m11"
        ELSE "m22"

\* QuatRadicand with a sign slipped in the M11 branch.
QuatRadicandSignSlip(xa, ya, za) ==
    LET m00 == Coord(xa, xa.x)
        m11 == Coord(ya, ya.y)
        m22 == Coord(za, za.z)
        tr  == Add(Add(m00, m11), m22)
        b   == QuatBranch(xa, ya, za)
    IN  CASE b = "tr"  -> Add(tr, One)
          [] b = "m00" -> Sub(Sub(Add(One, m00), m11), m22)
          [] b = "m11" -> Add(Sub(Add(One, m11), m00), m22)
          [] OTHER     -> Sub(Sub(Add(One, m22), m00), m11)

\* The argument of ** 0.5 in the branch taken.
QuatRadicand(xa, ya, za) ==
    LET m00 == Coord(xa, xa.x)
        m11 == Coord(ya, ya.y)
        m22 == Coord(za, za.z)
        tr  == Add(Add(m00, m11), m22)
        b   == QuatBranch(xa, ya, za)
    IN  CASE b = "tr"  -> Add(tr, One)
          [] b = "m00" -> Sub(Sub(Add(One, m00), m11), m22)
          [] b = "m11" -> Sub(Sub(Add(One, m11), m00), m22)
          [] OTHER     -> Sub(Sub(Add(One, m22), m00), m11)

\* QuatS without the factor 2.
QuatSNoDouble(xa, ya, za) == Sqrt(QuatRadicand(xa, ya, za))

\* S of the branch taken.
QuatS(xa, ya, za) == Mul(Sqrt(QuatRadicand(xa, ya, za)), Rat(2, 1))

\* <<qx, qy, qz, qw>>.
_axes_to_quaternion(xa, ya, za) ==
    LET m00 == Coord(xa, xa.x)
        m01 == Coord(ya, ya.x)
        m02 == Coord(za, za.x)
        m10 == Coord(xa, xa.y)
        m11 == Coord(ya, ya.y)
        m12 == Coord(za, za.y)
        m20 == Coord(xa, xa.z)
        m21 == Coord(ya, ya.z)
        m22 == Coord(za, za.z)
        b   == QuatBranch(xa, ya, za)
        S   == QuatS(xa, ya, za)
        q   == Mul(Rat(1, 4), S)
    IN  CASE b = "tr"  -> <<Div(Sub(m21, m12), S), Div(Sub(m02, m20), S),
                            Div(Sub(m10, m01), S), q>>
          [] b = "m00" -> <<q, Div(Add(m01, m10), S),
                            Div(Add(m02, m20), S), Div(Sub(m21, m12), S)>>
          [] b = "m11" -> <<Div(Add(m01, m10), S), q,
                            Div(Add(m12, m21), S), Div(Sub(m02, m20), S)>>
          [] OTHER     -> <<Div(Add(m02, m20), S), Div(Add(m12, m21), S),
                            q, Div(Sub(m10, m01), S)>>

\* ------------------------------------------------------- _axes_to_euler_zyx

Angle(c, s) == [c |-> c, s |-> s]

\* math.asin(v), v in [-1, 1]: the angle in [-pi/2, pi/2] whose sine is v.
asin(v) == Angle(Sqrt(Sub(One, Mul(v, v))), v)

\* atan2 with its arguments taken in the other order.
atan2Swapped(y, x) ==
    IF x.n = 0 /\ y.n = 0 THEN Angle(One, Zero)
    ELSE LET r == Sqrt(Add(Mul(x, x), Mul(y, y)))
         IN  Angle(Div(y, r), Div(x, r))

\* math.atan2(y, x): the angle of the point (x, y); 0 at the origin.
atan2(y, x) ==
    IF x.n = 0 /\ y.n = 0 THEN Angle(One, Zero)
    ELSE LET r == Sqrt(Add(Mul(x, x), Mul(y, y)))
         IN  Angle(Div(x, r), Div(y, r))

\* The unary minus forgotten.
NegAngleDropped(a) == a

\* -a
NegAngle(a) == Angle(a.c, Neg(a.s))

HalfPi == Angle(Zero, One)

\* The pitch at gimbal lock, with the test on the wrong side.
GimbalPitchFlipped(m20c) == IF m20c.n >= m20c.d THEN HalfPi ELSE NegAngle(HalfPi)

\* math.pi/2 if m20c <= -1.0 else -math.pi/2
GimbalPitch(m20c) == IF m20c.n <= -m20c.d THEN HalfPi ELSE NegAngle(HalfPi)

\* max(-1.0, min(1.0, m20)) of the rational n/d.
Clamp(n, d) == IF n > d THEN One ELSE IF n < -d THEN Neg(One) ELSE Rat(n, d)

\* <<rx, ry, rz>>.
_axes_to_euler_zyx(xa, ya, za) ==
    LET m00  == Coord(xa, xa.x)
        m01  == Coord(ya, ya.x)
        m10  == Coord(xa, xa.y)
        m11  == Coord(ya, ya.y)
        m21  == Coord(ya, ya.z)
        m22  == Coord(za, za.z)
        m20c == Clamp(xa.z, xa.d)
    IN  IF Abs(m20c.n) < m20c.d
        THEN <<atan2(m21, m22), NegAngle(asin(m20c)), atan2(m10, m00)>>
        ELSE <<atan2(Neg(m01), m11), GimbalPitch(m20c), Angle(One, Zero)>>

\* ------------------------------------------------- the conversions, applied

NoValue == <<>>

\* A caller hands a right-handed orthonormal basis to one of the conversions.
InitBasis ==
    /\ basis \in Bases
    /\ pc = "input"
    /\ design = [active |-> FALSE, names |-> <<>>]
    /\ quat = NoValue
    /\ euler = NoValue
    /\ tcp_occs = <<>>
    /\ tcp_occ = 0
    /\ boxes = <<>>
    /\ log = <<>>

\* A caller hands any three vectors to one of the conversions.
InitAny ==
    /\ basis \in AnyTriples \cup Bases
    /\ pc = "input"
    /\ design = [active |-> FALSE, names |-> <<>>]
    /\ quat = NoValue
    /\ euler = NoValue
    /\ tcp_occs = <<>>
    /\ tcp_occ = 0
    /\ boxes = <<>>
    /\ log = <<>>

AxesToQuaternion ==
    /\ pc = "input"
    /\ quat' = _axes_to_quaternion(basis.xa, basis.ya, basis.za)
    /\ pc' = "quaternion"
    /\ UNCHANGED <<design, basis, euler, tcp_occs, tcp_occ, boxes, log>>

AxesToEulerZYX ==
    /\ pc = "input"
    /\ euler' = _axes_to_euler_zyx(basis.xa, basis.ya, basis.za)
    /\ pc' = "euler"
    /\ UNCHANGED <<design, basis, quat, tcp_occs, tcp_occ, boxes, log>>

NextBasis == AxesToQuaternion \/ AxesToEulerZYX

SpecBasis == InitBasis /\ [][NextBasis]_vars

SpecAny == InitAny /\ [][NextBasis]_vars

\* ------------------------------------------------------------------- run()

\* Most occurrences of a design.
MaxOccs == 3

\* A component name is a sequence of characters.
TCP == <<"T", "C", "P">>

ComponentNames ==
    {TCP,
     <<"t", "c", "p">>,
     <<"T", "c", "p">>,
     <<"T", "C", "P", "_", "1">>,
     <<"m", "y", "T", "c", "p">>,
     <<"A", "r", "m">>}

\* str.lower(), a character at a time.
LowerChar(ch) ==
    CASE ch = "T" -> "t"
      [] ch = "C" -> "c"
      [] ch = "P" -> "p"
      [] ch = "A" -> "a"
      [] OTHER    -> ch

Lower(name) == [i \in 1..Len(name) |-> LowerChar(name[i])]

\* sub in s, for strings.
Contains(sub, s) ==
    \E i \in 0..(Len(s) - Len(sub)) : SubSeq(s, i + 1, i + Len(sub)) = sub

\* The designs a run can meet: none active, or one whose allOccurrences
\* yields up to MaxOccs occurrences, each with its component's name.
Designs ==
    {[active |-> FALSE, names |-> <<>>]} \cup
    {[active |-> TRUE, names |-> ns] :
        ns \in UNION {[1..n -> ComponentNames] : n \in 0..MaxOccs}}

\* The transforms the host hands out for the occurrence used.
Transforms == BasesOver(1)

\* The loop over root.allOccurrences, from occurrence i on.
RECURSIVE FindFrom(_, _, _, _)
FindFrom(names, i, exact, fallback) ==
    IF i > Len(names) THEN <<exact, fallback>>
    ELSE IF names[i] = TCP
         THEN FindFrom(names, i + 1, Append(exact, i), fallback)
    ELSE IF Contains(<<"t", "c", "p">>, Lower(names[i]))
         THEN FindFrom(names, i + 1, exact, Append(fallback, i))
    ELSE FindFrom(names, i + 1, exact, fallback)

\* (exact, fallback), as sequences of occurrence indices.
_find_tcp_occurrences(names) == FindFrom(names, 1, <<>>, <<>>)

\* tcp_occs = exact if exact else fallback, with the lists swapped.
ChooseOccsFallbackFirst(exact, fallback) == IF fallback # <<>> THEN fallback ELSE exact

\* tcp_occs = exact if exact else fallback
ChooseOccs(exact, fallback) == IF exact # <<>> THEN exact ELSE fallback

Box(kind, occs) == [kind |-> kind, occs |-> occs]

Init ==
    /\ design \in Designs
    /\ pc = "start"
    /\ basis = <<>>
    /\ quat = <<>>
    /\ euler = <<>>
    /\ tcp_occs = <<>>
    /\ tcp_occ = 0
    /\ boxes = <<>>
    /\ log = <<>>

\* Lines 16-19: no design is active.
RunNoDesign ==
    /\ pc = "start"
    /\ ~design.active
    /\ boxes' = Append(boxes, Box("Open a Fusion design first.", <<>>))
    /\ pc' = "done"
    /\ UNCHANGED <<design, basis, quat, euler, tcp_occs, tcp_occ, log>>

\* Lines 21-29: the search, and the message when it finds nothing.
RunFind ==
    /\ pc = "start"
    /\ design.active
    /\ LET found == _find_tcp_occurrences(design.names)
           occs == ChooseOccs(found[1], found[2])
       IN  /\ tcp_occs' = occs
           /\ IF occs = <<>>
              THEN /\ boxes' = Append(boxes,
                          Box("No occurrence found for a component named 'TCP'.", <<>>))
                   /\ pc' = "done"
              ELSE /\ boxes' = boxes
                   /\ pc' = "found"
    /\ UNCHANGED <<design, basis, quat, euler, tcp_occ, log>>

\* Lines 31-35: the message about several matches and the choice of the
\* first one.
RunChoose ==
    /\ pc = "found"
    /\ boxes' = IF Len(tcp_occs) > 1
                THEN Append(boxes, Box("Multiple 'TCP' occurrences found; using the first:", tcp_occs))
                ELSE boxes
    /\ tcp_occ' = tcp_occs[1]
    /\ pc' = "chosen"
    /\ UNCHANGED <<design, basis, quat, euler, tcp_occs, log>>

\* Lines 38-45: the transform of the occurrence and its conversion.
RunConvert ==
    /\ pc = "chosen"
    /\ \E T \in Transforms :
          /\ basis' = T
          /\ quat' = _axes_to_quaternion(T.xa, T.ya, T.za)
          /\ euler' = _axes_to_euler_zyx(T.xa, T.ya, T.za)
    /\ pc' = "popup"
    /\ UNCHANGED <<design, tcp_occs, tcp_occ, boxes, log>>

\* Lines 62-69: the result popup.
RunPopup ==
    /\ pc = "popup"
    /\ boxes' = Append(boxes, Box("Top-level -> TCP transform", <<tcp_occ>>))
    /\ pc' = "log"
    /\ UNCHANGED <<design, basis, quat, euler, tcp_occs, tcp_occ, log>>

\* Line 72: the pose, quaternion in the order w, x, y, z.
RunLog ==
    /\ pc = "log"
    /\ log' = Append(log, [text |-> "ABB pose", q |-> <<quat[4], quat[1], quat[2], quat[3]>>])
    /\ pc' = "done"
    /\ UNCHANGED <<design, basis, quat, euler, tcp_occs, tcp_occ, boxes>>

\* Lines 74-76: a host call raised (the traversal of the design, the
\* transform of the occurrence, app.log); the traceback is shown.
RunExcept ==
    /\ \/ pc = "start" /\ design.active
       \/ pc = "chosen"
       \/ pc = "log"
    /\ boxes' = Append(boxes, Box("Traceback", <<>>))
    /\ pc' = "done"
    /\ UNCHANGED <<design, basis, quat, euler, tcp_occs, tcp_occ, log>>

Next == RunNoDesign \/ RunFind \/ RunChoose \/ RunConvert \/ RunPopup \/ RunLog \/ RunExcept

Spec == Init /\ [][Next]_vars

\* ------------------------------------------------ properties of the conversions

\* The matrix whose columns are xAxis, yAxis, zAxis, row by row.
BasisMatrix(b) ==
    <<<<Coord(b.xa, b.xa.x), Coord(b.ya, b.ya.x), Coord(b.za, b.za.x)>>,
      <<Coord(b.xa, b.xa.y), Coord(b.ya, b.ya.y), Coord(b.za, b.za.y)>>,
      <<Coord(b.xa, b.xa.z), Coord(b.ya, b.ya.z), Coord(b.za, b.za.z)>>>>

Two == Rat(2, 1)

\* The standard rotation matrix of the quaternion q = <<qx, qy, qz, qw>>.
QuatToMatrix(q) ==
    LET qx == q[1]
        qy == q[2]
        qz == q[3]
        qw == q[4]
        P(a, b) == Mul(a, b)
    IN  <<<<Sub(One, Mul(Two, Add(P(qy, qy), P(qz, qz)))),
            Mul(Two, Sub(P(qx, qy), P(qz, qw))),
            Mul(Two, Add(P(qx, qz), P(qy, qw)))>>,
          <<Mul(Two, Add(P(qx, qy), P(qz, qw))),
            Sub(One, Mul(Two, Add(P(qx, qx), P(qz, qz)))),
            Mul(Two, Sub(P(qy, qz), P(qx, qw)))>>,
          <<Mul(Two, Sub(P(qx, qz), P(qy, qw))),
            Mul(Two, Add(P(qy, qz), P(qx, qw))),
            Sub(One, Mul(Two, Add(P(qx, qx), P(qy, qy))))>>>>

\* qx^2 + qy^2 + qz^2 + qw^2.
NormSquared(q) ==
    Add(Add(Mul(q[1], q[1]), Mul(q[2], q[2])), Add(Mul(q[3], q[3]), Mul(q[4], q[4])))

\* Rz(rz) Ry(ry) Rx(rx) for e = <<rx, ry, rz>>.
EulerToMatrix(e) ==
    LET cx == e[1].c
        sx == e[1].s
        cy == e[2].c
        sy == e[2].s
        cz == e[3].c
        sz == e[3].s
        P3(a, b, c) == Mul(Mul(a, b), c)
    IN  <<<<Mul(cz, cy), Sub(P3(cz, sy, sx), Mul(sz, cx)), Add(P3(cz, sy, cx), Mul(sz, sx))>>,
          <<Mul(sz, cy), Add(P3(sz, sy, sx), Mul(cz, cx)), Sub(P3(sz, sy, cx), Mul(cz, sx))>>,
          <<Neg(sy), Mul(cy, sx), Mul(cy, cx)>>>>

Column(m, j) == <<m[1][j], m[2][j], m[3][j]>>

AxisAligned(b) ==
    \A v \in {b.xa, b.ya, b.za} : \A c \in {v.x, v.y, v.z} : c = 0 \/ Abs(c) = v.d

Orthonormal(b) ==
    /\ \A v \in {b.xa, b.ya, b.za} : Dot(v, v) = v.d * v.d
    /\ Dot(b.xa, b.ya) = 0 /\ Dot(b.xa, b.za) = 0 /\ Dot(b.ya, b.za) = 0

GimbalLock(b) == Abs(b.xa.z) = b.xa.d

\* C1: for every right-handed orthonormal basis, whichever branch
\* _axes_to_quaternion took, the standard quaternion-to-matrix formula applied
\* to the returned (qx, qy, qz, qw) gives back the matrix with columns xAxis,
\* yAxis, zAxis.
QuaternionRoundTrip ==
    pc = "quaternion" => QuatToMatrix(quat) = BasisMatrix(basis)

\* A basis that is not axis-aligned went through a diagonal branch and came back.
QuaternionRoundTripWitness ==
    /\ pc = "quaternion"
    /\ ~AxisAligned(basis)
    /\ QuatBranch(basis.xa, basis.ya, basis.za) = "m11"
    /\ QuatToMatrix(quat) = BasisMatrix(basis)

\* C2: for every right-handed orthonormal basis the returned quaternion has
\* qx^2 + qy^2 + qz^2 + qw^2 = 1, in each of the four branches.
QuaternionUnitNorm ==
    pc = "quaternion" => NormSquared(quat) = One

\* A quaternion with irrational components, from the M00 branch.
QuaternionUnitNormWitness ==
    /\ pc = "quaternion"
    /\ QuatBranch(basis.xa, basis.ya, basis.za) = "m00"
    /\ \E i \in 1..4 : quat[i].k > 1
    /\ NormSquared(quat) = One

\* C3: for every right-handed orthonormal basis with |M20| < 1 the returned
\* angles satisfy Rz(rz) Ry(ry) Rx(rx) = M.
EulerRoundTrip ==
    (pc = "euler" /\ ~GimbalLock(basis)) => EulerToMatrix(euler) = BasisMatrix(basis)

\* A basis with a pitch that is neither 0 nor +-pi/2, and a roll and a yaw
\* that are not multiples of pi/2.
EulerRoundTripWitness ==
    /\ pc = "euler"
    /\ ~GimbalLock(basis)
    /\ basis.xa.z # 0 /\ basis.xa.x # 0 /\ basis.xa.y # 0
    /\ basis.ya.z # 0 /\ basis.za.z # 0
    /\ EulerToMatrix(euler) = BasisMatrix(basis)

\* C4: for every right-handed orthonormal basis with |M20| = 1 the returned
\* angles (rz = 0, ry = +-pi/2, rx = atan2(-M01, M11)) satisfy
\* Rz(rz) Ry(ry) Rx(rx) = M.
GimbalLockReconstruction ==
    (pc = "euler" /\ GimbalLock(basis)) => EulerToMatrix(euler) = BasisMatrix(basis)

\* The basis xAxis = (0,0,-1), yAxis = (0,1,0), zAxis = (1,0,0).
GimbalExample(b) ==
    BasisMatrix(b) = <<<<Zero, Zero, One>>, <<Zero, One, Zero>>, <<Neg(One), Zero, Zero>>>>

\* C5 as stated: for xAxis = (0,0,-1), yAxis = (0,1,0), zAxis = (1,0,0) the
\* degenerate branch returns ry = -pi/2 and rz = 0, and the third column of
\* Rz(rz) Ry(ry) Rx(rx) equals zAxis.
GimbalExampleAsStated ==
    (pc = "euler" /\ GimbalExample(basis)) =>
        /\ euler[2] = NegAngle(HalfPi)
        /\ euler[3] = Angle(One, Zero)
        /\ Column(EulerToMatrix(euler), 3) = Column(BasisMatrix(basis), 3)

\* C5, amended: for that basis (M20 = -1) the degenerate branch returns
\* ry = +pi/2 and rz = 0, and the third column of Rz(rz) Ry(ry) Rx(rx) equals
\* zAxis.
GimbalExampleAmended ==
    (pc = "euler" /\ GimbalExample(basis)) =>
        /\ GimbalLock(basis)
        /\ euler[2] = HalfPi
        /\ euler[3] = Angle(One, Zero)
        /\ Column(EulerToMatrix(euler), 3) = Column(BasisMatrix(basis), 3)

GimbalExampleWitness ==
    /\ pc = "euler"
    /\ GimbalExample(basis)
    /\ euler[2] = HalfPi

\* C6: for every triple of input vectors, orthonormal or not, in the branch
\* taken the argument of the square root is non-negative and the divisor S is
\* not zero, so the call neither divides by zero nor leaves the real numbers.
QuaternionTotal ==
    pc = "quaternion" =>
        /\ IsSingle(QuatRadicand(basis.xa, basis.ya, basis.za))
        /\ QuatRadicand(basis.xa, basis.ya, basis.za).n >= 0
        /\ IsSingle(QuatS(basis.xa, basis.ya, basis.za))
        /\ QuatS(basis.xa, basis.ya, basis.za) # Zero
        /\ \A i \in 1..4 : IsSingle(quat[i])

\* A triple that is not orthonormal, with a negative trace, converted.
QuaternionTotalWitness ==
    /\ pc = "quaternion"
    /\ ~Orthonormal(basis)
    /\ basis.xa.x + basis.ya.y + basis.za.z < 0
    /\ \A i \in 1..4 : IsSingle(quat[i])

\* The basis xAxis = (0,1,0), yAxis = (-1,0,0), zAxis = (0,0,1).
YawExample(b) ==
    BasisMatrix(b) = <<<<Zero, Neg(One), Zero>>, <<One, Zero, Zero>>, <<Zero, Zero, One>>>>

\* sin(pi/4) = cos(pi/4) = sqrt(1/2).
SinQuarterPi == Sqrt(Rat(1, 2))

\* C7: for xAxis = (0,1,0), yAxis = (-1,0,0), zAxis = (0,0,1),
\* _axes_to_euler_zyx returns rx = 0, ry = 0, rz = pi/2 and
\* _axes_to_quaternion returns (0, 0, sin(pi/4), cos(pi/4)) or its negation.
YawExampleResult ==
    YawExample(basis) =>
        /\ pc = "euler" => euler = <<Angle(One, Zero), Angle(One, Zero), HalfPi>>
        /\ pc = "quaternion" =>
              \/ quat = <<Zero, Zero, SinQuarterPi, SinQuarterPi>>
              \/ quat = <<Zero, Zero, Neg(SinQuarterPi), Neg(SinQuarterPi)>>

YawExampleWitness ==
    /\ YawExample(basis)
    /\ pc = "quaternion"
    /\ quat[4] = SinQuarterPi

\* The diagonal entry a branch is for.
BranchEntry(b, br) ==
    CASE br = "m00" -> b.xa.x
      [] br = "m11" -> b.ya.y
      [] OTHER      -> b.za.z

\* Each of the four branches is taken by some right-handed orthonormal basis.
EachBranchTaken ==
    \A br \in {"tr", "m00", "m11", "m22"} :
        \E b \in Bases : QuatBranch(b.xa, b.ya, b.za) = br

\* C8: for every input with trace <= 0 the branch taken is the one of a
\* diagonal entry that is >= both other diagonal entries; of two entries tied
\* for the largest, M00 = M11 > M22 takes the M11 branch and M11 = M22 (not
\* below M00) takes the M22 branch; and each of the four branches is taken by
\* at least one right-handed orthonormal basis.
BranchByDiagonalDominance ==
    /\ EachBranchTaken
    /\ (pc = "quaternion" /\ basis.xa.x + basis.ya.y + basis.za.z <= 0) =>
          LET m00 == basis.xa.x
              m11 == basis.ya.y
              m22 == basis.za.z
              br  == QuatBranch(basis.xa, basis.ya, basis.za)
          IN  /\ br \in {"m00", "m11", "m22"}
              /\ BranchEntry(basis, br) >= m00
              /\ BranchEntry(basis, br) >= m11
              /\ BranchEntry(basis, br) >= m22
              /\ (m00 = m11 /\ m11 > m22) => br = "m11"
              /\ (m11 = m22 /\ m22 >= m00) => br = "m22"

\* A tie for the largest diagonal entry, resolved.
BranchByDiagonalDominanceWitness ==
    /\ pc = "quaternion"
    /\ basis.xa.x + basis.ya.y + basis.za.z <= 0
    /\ basis.xa.x = basis.ya.y /\ basis.ya.y > basis.za.z
    /\ QuatBranch(basis.xa, basis.ya, basis.za) = "m11"

\* ---------------------------------------------------------- properties of run()

\* The occurrences run() chooses from.
Selectable == {tcp_occs[i] : i \in 1..Len(tcp_occs)}

\* C9: every occurrence run() can select has a component name equal to "TCP"
\* exactly or when compared case-insensitively; a name that has other
\* characters around "tcp" is never selected.
NameMatching ==
    \A i \in Selectable : Lower(design.names[i]) = Lower(TCP)

\* A name matches when the code puts its occurrence in one of the two lists.
NameMatches(name) == name = TCP \/ Contains(<<"t", "c", "p">>, Lower(name))

Min(S) == CHOOSE i \in S : \A j \in S : i <= j

\* The first exact match in traversal order when there is one, otherwise the
\* first match of the fallback list; 0 when nothing matches.
FirstChoice(names) ==
    LET E == {i \in 1..Len(names) : names[i] = TCP}
        F == {i \in 1..Len(names) : NameMatches(names[i])}
    IN  IF E # {} THEN Min(E) ELSE IF F # {} THEN Min(F) ELSE 0

PopupShown ==
    \E i \in 1..Len(boxes) : boxes[i].kind = "Top-level -> TCP transform"

\* C10: in a run the 'ABB pose' line is logged at most once, only after the
\* result popup, and only when a design is active and some occurrence
\* matches; the occurrence used is the first exact match in traversal order
\* when there is one, otherwise the first fallback match; when no design is
\* active or nothing matches, exactly one message box is shown and nothing is
\* logged.
RunOrdering ==
    /\ Len(log) <= 1
    /\ log # <<>> =>
          /\ PopupShown
          /\ boxes[Len(boxes)].kind = "Top-level -> TCP transform"
          /\ pc = "done"
          /\ design.active
          /\ FirstChoice(design.names) # 0
    /\ tcp_occ # 0 => tcp_occ = FirstChoice(design.names)
    /\ \A i \in 1..Len(boxes) :
          boxes[i].kind = "Top-level -> TCP transform" =>
              /\ boxes[i].occs = <<FirstChoice(design.names)>>
              /\ FirstChoice(design.names) # 0
    /\ pc \in {"chosen", "popup", "log"} => tcp_occ # 0
    /\ (~design.active \/ FirstChoice(design.names) = 0) =>
          /\ log = <<>>
          /\ ~PopupShown
          /\ Len(boxes) = IF pc = "done" THEN 1 ELSE 0

\* A finished run that used an exact match found after a fallback match.
RunOrderingWitness ==
    /\ pc = "done"
    /\ Len(log) = 1
    /\ tcp_occ > 1
    /\ design.names[tcp_occ] = TCP
    /\ \E j \in 1..(tcp_occ - 1) : NameMatches(design.names[j])
    /\ boxes[Len(boxes)].occs = <<tcp_occ>>

====
